---- MODULE Spec2Model ----
(***************************************************************************)
(* A model of static/js/st_veronica_foundation.js: the AJAX prefetch       *)
(* handlers with their URL-keyed response cache, sendJsonRequest, the JSON *)
(* response router (handleJsonResponse and the process*Response handlers), *)
(* the notification toast and the DOM helpers they call.                   *)
(*                                                                         *)
(* The script runs on the browser event loop: every handler or callback    *)
(* runs to completion, so each is one action.  Scroll position, CSS        *)
(* transitions other than their completion callbacks, console output and   *)
(* the IntersectionObserver reveal of .fade-in elements are not modelled.  *)
(***************************************************************************)
EXTENDS Integers, Sequences, FiniteSets, TLC

(***************************************************************************)
(* JavaScript values.  Every value is a record with a type tag t, so that  *)
(* values of different types can be compared.                              *)
(***************************************************************************)
Undefined == [t |-> "undefined"]
Null == [t |-> "null"]
Bool(b) == [t |-> "boolean", v |-> b]
Num(n) == [t |-> "number", v |-> n]
Str(x) == [t |-> "string", v |-> x]
Arr(q) == [t |-> "array", v |-> q]
\* f is a function from property names to values
Obj(f) == [t |-> "object", f |-> f]

\* ToBoolean, as used by if (x), !x and x || y
Truthy(x) ==
    CASE x.t = "undefined" -> FALSE
      [] x.t = "null" -> FALSE
      [] x.t = "boolean" -> x.v
      [] x.t = "number" -> x.v # 0
      [] x.t = "string" -> x.v # ""
      [] OTHER -> TRUE

\* x || y
OrElse(x, y) == IF Truthy(x) THEN x ELSE y

\* reading x.k raises a TypeError when x is undefined or null
Nullish(x) == x.t \in {"undefined", "null"}

\* x.k for a non-nullish x: own properties of objects, undefined otherwise
Get(x, k) ==
    IF x.t = "object" /\ k \in DOMAIN x.f THEN x.f[k] ELSE Undefined

\* String(x) for the values the model passes to .text() and to location.href
ToText(x) ==
    CASE x.t = "string" -> x.v
      [] x.t = "number" -> ToString(x.v)
      [] x.t = "boolean" -> IF x.v THEN "true" ELSE "false"
      [] x.t = "null" -> "null"
      [] x.t = "undefined" -> "undefined"
      [] OTHER -> "[object Object]"

(***************************************************************************)
(* The page the script is loaded into (the templates' markup).             *)
(***************************************************************************)
\* forms carrying data-json-form, in document order
Forms == <<"f1", "f2">>
FormSet == {Forms[i] : i \in DOMAIN Forms}
\* the named fields of each form
FormFields == [f1 |-> {"email", "name"}, f2 |-> {"email"}]
Fields == {<<f, n>> \in FormSet \X {"email", "name"} : n \in FormFields[f]}
\* action and method attributes of the forms
FormAction == [f1 |-> Str("/contact/"), f2 |-> Undefined]
FormMethod == [f1 |-> Undefined, f2 |-> Str("PUT")]
\* the address of the page itself
Here == "/"

\* the forms a selector matches, in document order; a selector that names
\* nothing on the page (undefined included) matches no form
MatchForms(sel) ==
    IF sel = Str("form[data-json-form]") THEN Forms
    ELSE IF sel = Str("#f1") THEN <<"f1">>
    ELSE IF sel = Str("#f2") THEN <<"f2">>
    ELSE <<>>

\* the forms whose fields lie inside the elements a selector matches: a
\* form selector gives the forms it matches; #signup is a <div> around f2,
\* an element that has no reset()
MatchInside(sel) ==
    IF sel = Str("#signup") THEN {"f2"}
    ELSE {MatchForms(sel)[i] : i \in DOMAIN MatchForms(sel)}

\* whether a selector matches the search results container of the page
MatchesSearchContainer(sel) == sel = Str("#search-results")

\* elements that run jQuery animations with completion callbacks
FxElements == {"ajaxContainer", "contentWrapper", "searchContainer"}

VARIABLES
    ajaxCache,              \* line 16: url -> response body, Undefined when absent
    prefersReducedMotion,   \* line 35
    page,                   \* which optional containers the page markup holds
    requests,               \* the $.ajax requests in flight
    issued,                 \* number of $.ajax requests sent so far
    spinnerShow,            \* .loading-spinner carries class show
    bodyClasses,            \* the ajax-* classes of <body>
    dom,                    \* the rest of the document the handlers write
    cacheWrites,            \* url -> number of assignments ajaxCache[url] = data so far
    calls,                  \* number of calls other scripts made to handleJsonResponse
    last                    \* what the handler that ran last did

vars == <<ajaxCache, prefersReducedMotion, page, requests, issued,
          spinnerShow, bodyClasses, dom, cacheWrites, calls, last>>

\* the document before any handler has run
InitDom ==
    [toast |-> [exists |-> FALSE, message |-> "", classes |-> {}],
     sr |-> [exists |-> FALSE, text |-> ""],
     ajaxContainer |-> Str("<p>home</p>"),
     searchContainer |-> Str(""),
     searchQuery |-> "",
     location |-> Here,
     formDirty |-> [f \in FormSet |-> FALSE],
     fieldInvalid |-> [x \in Fields |-> FALSE],
     fieldErrors |-> [x \in Fields |-> <<>>],
     fx |-> [e \in FxElements |-> <<>>]]

(***************************************************************************)
(* A handler threads a record s through the functions it calls:            *)
(*   s.dom     the document as written so far                              *)
(*   s.log     what the handler did that others can observe, in order:     *)
(*               [k |-> "notify", message, type]  a showNotification call  *)
(*               [k |-> "trigger", name, args]    a $document.trigger call *)
(*               [k |-> "navigate", url]          window.location.href set *)
(*               [k |-> "route", call, ret]       handleJsonResponse       *)
(*                                                returned ret             *)
(*   s.thrown  an exception is propagating                                 *)
(***************************************************************************)
Begin(d) == [dom |-> d, log |-> <<>>, thrown |-> FALSE]

\* the entries of kind k in a log
Entries(log, k) == SelectSeq(log, LAMBDA e : e.k = k)

throw(s) == [s EXCEPT !.thrown = TRUE]

\* line 395: the statement is cut by a comment marker after "$toast.remove",
\* which leaves a bare property read: no class is removed and none is added
toastClasses(classes, type) == classes

showNotification(s, message, type) ==
    LET ty == IF type = Undefined THEN Str("info") ELSE type
        t0 == IF s.dom.toast.exists THEN s.dom.toast
              ELSE [exists |-> TRUE, message |-> "", classes |-> {"toast"}]
        \* .text(undefined) is the getter: it writes nothing
        t1 == IF message = Undefined THEN t0
              ELSE [t0 EXCEPT !.message = IF message = Null THEN "" ELSE ToText(message)]
        t2 == [t1 EXCEPT !.classes = toastClasses(@, ToText(ty))]
    IN  [s EXCEPT !.dom.toast = t2,
                  !.log = Append(@, [k |-> "notify", message |-> message, type |-> ty])]

announceToScreenReader(s, message) ==
    [s EXCEPT !.dom.sr = [exists |-> TRUE, text |-> message]]

loadAjaxContent(s, content) ==
    IF ~page.ajaxContainer THEN s
    ELSE LET s1 == IF prefersReducedMotion
                   THEN [s EXCEPT !.dom.ajaxContainer = content]
                   ELSE [s EXCEPT !.dom.fx["ajaxContainer"] =
                            Append(@, [cb |-> "html", arg |-> content])]
         IN  announceToScreenReader(s1, "Content loaded successfully")

trigger(s, name, args) ==
    [s EXCEPT !.log = Append(@, [k |-> "trigger", name |-> name, args |-> args])]

\* Object.keys(x) as far as the page can tell: the keys of an array or of a
\* string are indices, which name no field of the page
Keys(x) == IF x.t = "object" THEN DOMAIN x.f ELSE {}

\* the elements that `${formSelector} [name="${field}"]` selects
MatchFields(formSelector, field) ==
    {x \in Fields : x[2] = field /\ x[1] \in MatchInside(formSelector)}

displayFormErrors(s, errors, formSelector) ==
    \* every .error-message and every .is-invalid of the document is cleared,
    \* then each selected field is marked and gets its message right after it
    [s EXCEPT
       !.dom.fieldInvalid =
           [x \in Fields |-> x[2] \in Keys(errors)
                             /\ x \in MatchFields(formSelector, x[2])],
       !.dom.fieldErrors =
           [x \in Fields |->
               IF x[2] \in Keys(errors) /\ x \in MatchFields(formSelector, x[2])
               THEN <<ToText(errors.f[x[2]])>>
               ELSE <<>>]]

\* one <li> of the list displaySearchResults builds
SearchItem(result) ==
    [url |-> ToText(Get(result, "url")),
     title |-> ToText(Get(result, "title")),
     excerpt |-> ToText(Get(result, "excerpt"))]

\* the <ul class="search-results"> markup, as the list of its items
SearchList(items) == [t |-> "ul", v |-> items]

NoResultsHtml == Str("<p>No results found.</p>")

\* displaySearchResults without the test for an empty list (lines 713-716)
displaySearchResultsEmptyList(s, results, containerSelector) ==
    IF ~MatchesSearchContainer(containerSelector) THEN s
    ELSE IF results.t # "array" THEN throw(s)
    ELSE IF \E i \in DOMAIN results.v : Nullish(results.v[i]) THEN throw(s)
    ELSE IF prefersReducedMotion
    THEN [s EXCEPT !.dom.searchContainer =
             SearchList([i \in DOMAIN results.v |-> SearchItem(results.v[i])])]
    ELSE [s EXCEPT !.dom.fx["searchContainer"] =
             Append(@, [cb |-> "html",
                        arg |-> SearchList([i \in DOMAIN results.v |->
                                              SearchItem(results.v[i])])])]

displaySearchResults(s, results, containerSelector) ==
    IF ~MatchesSearchContainer(containerSelector) THEN s
    ELSE IF results.t = "array" /\ Len(results.v) = 0
    THEN [s EXCEPT !.dom.searchContainer = NoResultsHtml]
    \* results.forEach is not a function
    ELSE IF results.t # "array" THEN throw(s)
    \* result.url of an undefined or null entry
    ELSE IF \E i \in DOMAIN results.v : Nullish(results.v[i]) THEN throw(s)
    ELSE LET html == SearchList([i \in DOMAIN results.v |-> SearchItem(results.v[i])])
         IN  IF prefersReducedMotion
             THEN [s EXCEPT !.dom.searchContainer = html]
             ELSE [s EXCEPT !.dom.fx["searchContainer"] =
                      Append(@, [cb |-> "html", arg |-> html])]

updateSearchQueryDisplay(s, query) ==
    [s EXCEPT !.dom.searchQuery = ToText(query)]

\* lines 576-579: if (data.message)
jsonMessage(s, data) ==
    IF Truthy(Get(data, "message"))
    THEN showNotification(s, Get(data, "message"),
                          IF Truthy(Get(data, "success")) THEN Str("success")
                                                          ELSE Str("error"))
    ELSE s

\* lines 581-589: if (data.redirect)
jsonRedirect(s, data) ==
    IF ~Truthy(Get(data, "redirect")) THEN s
    ELSE IF prefersReducedMotion
    THEN [s EXCEPT !.dom.location = ToText(Get(data, "redirect")),
                   !.log = Append(@, [k |-> "navigate",
                                      url |-> ToText(Get(data, "redirect"))])]
    ELSE IF page.contentWrapper
    THEN [s EXCEPT !.dom.fx["contentWrapper"] =
             Append(@, [cb |-> "redirect", arg |-> Get(data, "redirect")])]
    ELSE s

\* lines 591-593: if (data.content)
jsonContent(s, data) ==
    IF Truthy(Get(data, "content")) THEN loadAjaxContent(s, Get(data, "content"))
    ELSE s

\* a generic step that handles data.redirect before data.message
processJsonDataRedirectFirst(s, data, options) ==
    IF s.thrown THEN s
    ELSE IF Nullish(data) THEN throw(s)
    ELSE trigger(jsonContent(jsonMessage(jsonRedirect(s, data), data), data),
                 "stveronica.jsonProcessed", <<data, options>>)

processJsonData(s, data, options) ==
    IF s.thrown THEN s
    ELSE IF Nullish(data) THEN throw(s)
    ELSE trigger(jsonContent(jsonRedirect(jsonMessage(s, data), data), data),
                 "stveronica.jsonProcessed", <<data, options>>)

\* lines 606-609: if (data.form_errors)
formErrors(s, data, options) ==
    IF ~Truthy(Get(data, "form_errors")) THEN s
    ELSE IF Nullish(options) THEN throw(s)
    ELSE displayFormErrors(s, Get(data, "form_errors"), Get(options, "formSelector"))

\* lines 611-617: if (data.form_success)
formSuccess(s, data, options) ==
    IF s.thrown \/ ~Truthy(Get(data, "form_success")) THEN s
    ELSE IF Nullish(options) THEN throw(s)
    ELSE IF ~Truthy(Get(options, "formSelector"))
    THEN showNotification(s, Get(data, "form_success"), Str("success"))
    \* $(options.formSelector)[0] is undefined, or is no form and has no reset
    ELSE IF MatchForms(Get(options, "formSelector")) = <<>> THEN throw(s)
    ELSE showNotification(
            [s EXCEPT !.dom.formDirty[MatchForms(Get(options, "formSelector"))[1]] = FALSE],
            Get(data, "form_success"), Str("success"))

\* a form branch that runs the generic processing first
processFormResponseGenericFirst(s, data, options) ==
    IF Nullish(data) THEN throw(s)
    ELSE formSuccess(formErrors(processJsonData(s, data, options), data, options),
                     data, options)

processFormResponse(s, data, options) ==
    IF Nullish(data) THEN throw(s)
    ELSE processJsonData(formSuccess(formErrors(s, data, options), data, options),
                         data, options)

\* lines 630-632: if (data.search_results)
searchResults(s, data, options) ==
    IF ~Truthy(Get(data, "search_results")) THEN s
    ELSE IF Nullish(options) THEN throw(s)
    ELSE displaySearchResults(s, Get(data, "search_results"),
                              Get(options, "containerSelector"))

\* lines 634-636: if (data.search_query)
searchQuery(s, data) ==
    IF s.thrown \/ ~Truthy(Get(data, "search_query")) THEN s
    ELSE updateSearchQueryDisplay(s, Get(data, "search_query"))

processSearchResponse(s, data, options) ==
    IF Nullish(data) THEN throw(s)
    ELSE processJsonData(searchQuery(searchResults(s, data, options), data),
                         data, options)

RECURSIVE notifyEach(_, _)
\* data.notifications.forEach(...) over the entries q still to visit
notifyEach(s, q) ==
    IF q = <<>> THEN s
    ELSE IF Nullish(Head(q)) THEN throw(s)
    ELSE notifyEach(showNotification(s, Get(Head(q), "message"),
                                     OrElse(Get(Head(q), "type"), Str("info"))),
                    Tail(q))

\* a notification branch that stops after the first entry
notificationsFirstOnly(s, data) ==
    IF ~Truthy(Get(data, "notifications")) THEN s
    ELSE IF Get(data, "notifications").t # "array" THEN throw(s)
    ELSE IF Get(data, "notifications").v = <<>> THEN s
    ELSE notifyEach(s, <<Head(Get(data, "notifications").v)>>)

\* lines 649-653: if (data.notifications)
notifications(s, data) ==
    IF ~Truthy(Get(data, "notifications")) THEN s
    \* data.notifications.forEach is not a function
    ELSE IF Get(data, "notifications").t # "array" THEN throw(s)
    ELSE notifyEach(s, Get(data, "notifications").v)

processNotificationResponse(s, data, options) ==
    IF Nullish(data) THEN throw(s)
    ELSE processJsonData(notifications(s, data), data, options)

\* the try block of handleJsonResponse: the switch on responseType
dispatch(s, data, responseType, options) ==
    CASE responseType = Str("form") -> processFormResponse(s, data, options)
      [] responseType = Str("search") -> processSearchResponse(s, data, options)
      [] responseType = Str("notification") -> processNotificationResponse(s, data, options)
      [] OTHER -> processJsonData(s, data, options)

ErrorProcessing == Str("Error processing server response")

\* a default parameter value: it replaces undefined only
defaultTo(x, d) == IF x = Undefined THEN d ELSE x

\* lines 561-566: return true at the end of the try block, or the catch
\* block; the return value is kept as ret in the entry added to the log
tryReturn(r, call) ==
    IF r.thrown
    THEN [showNotification([r EXCEPT !.thrown = FALSE], ErrorProcessing, Str("error"))
             EXCEPT !.log = Append(@, [k |-> "route", call |-> call, ret |-> FALSE])]
    ELSE [r EXCEPT !.log = Append(@, [k |-> "route", call |-> call, ret |-> TRUE])]

\* handleJsonResponse without its catch block
handleJsonResponseNoCatch(s, data, responseTypeArg, optionsArg) ==
    dispatch(s, data, defaultTo(responseTypeArg, Str("default")),
             defaultTo(optionsArg, Obj(<<>>)))

\* a handleJsonResponse that undoes what the try block did when it raises
handleJsonResponseAtomic(s, data, responseTypeArg, optionsArg) ==
    tryReturn(IF dispatch(s, data, defaultTo(responseTypeArg, Str("default")),
                          defaultTo(optionsArg, Obj(<<>>))).thrown
              THEN throw(s)
              ELSE dispatch(s, data, defaultTo(responseTypeArg, Str("default")),
                            defaultTo(optionsArg, Obj(<<>>))),
              [data |-> data,
               responseType |-> defaultTo(responseTypeArg, Str("default")),
               options |-> defaultTo(optionsArg, Obj(<<>>))])

handleJsonResponse(s, data, responseTypeArg, optionsArg) ==
    tryReturn(dispatch(s, data, defaultTo(responseTypeArg, Str("default")),
                       defaultTo(optionsArg, Obj(<<>>))),
              [data |-> data,
               responseType |-> defaultTo(responseTypeArg, Str("default")),
               options |-> defaultTo(optionsArg, Obj(<<>>))])

(***************************************************************************)
(* ajaxPrefetch: the elements carrying data-prefetch="true".               *)
(***************************************************************************)
PrefetchElements == {"a1", "a2", "a3", "a4"}
\* $element.attr('href') || $element.data('url')
ElemUrl == [a1 |-> Str("/about/"), a2 |-> Str("/about/"),
            a3 |-> Str("/news/"), a4 |-> Undefined]
\* $element.data('response-type')
ElemResponseTypeAttr == [a1 |-> Undefined, a2 |-> Str("json"),
                         a3 |-> Undefined, a4 |-> Undefined]
\* $element.hasClass('ajax-load')
ElemAjaxLoad == [a1 |-> TRUE, a2 |-> FALSE, a3 |-> FALSE, a4 |-> TRUE]
\* $element.data('json-handler')
ElemJsonHandler == [a1 |-> Undefined, a2 |-> Undefined,
                    a3 |-> Undefined, a4 |-> Undefined]

\* the keys ajaxCache can get: the urls of the prefetch elements
CacheUrls == {ElemUrl[e].v : e \in {x \in PrefetchElements : Truthy(ElemUrl[x])}}

responseTypeOf(el) == OrElse(ElemResponseTypeAttr[el], Str("default"))
isJson(el) == responseTypeOf(el) = Str("json")
jsonHandlerOf(el) == OrElse(ElemJsonHandler[el], Str("default"))
elementOptions(el) == Obj([element |-> Str(el), url |-> ElemUrl[el]])

\* line 141, evaluated once when the document is ready: ajaxCache is empty
\* then, so the handlers are bound exactly on the elements that have a url
hasHandlers(el) == Truthy(ElemUrl[el])

\* a test that never finds the entry
cachedNever(url) == FALSE

\* lines 144 and 191: the test that decides between the cache and the network
cached(url) == Truthy(ajaxCache[url])

\* the most $.ajax requests one run of the model sends
MaxRequests == 2

\* $.ajax(...): the request is recorded as in flight and beforeSend runs
\* (lines 149-153, 206-209, 488-491)
ajaxSend(src, who, url, json, options) ==
    /\ issued < MaxRequests
    /\ issued' = issued + 1
    /\ requests' = requests \cup
          {[id |-> issued + 1, src |-> src, who |-> who, url |-> url,
            json |-> json, options |-> options]}
    /\ spinnerShow' = TRUE
    /\ bodyClasses' = bodyClasses \cup {"ajax-loading"}

\* the most completion callbacks one element's animation queue holds
MaxFx == 1
fxBounded(d) == \A e \in FxElements : Len(d.fx[e]) <= MaxFx

\* a success path that keeps ajax-loading while other requests are in flight
classesOnSuccessTracked(classes) ==
    IF Cardinality(requests) > 1 THEN classes \cup {"ajax-success"}
    ELSE (classes \ {"ajax-loading"}) \cup {"ajax-success"}

\* removeClass('ajax-loading').addClass('ajax-success')
classesOnSuccess(classes) == (classes \ {"ajax-loading"}) \cup {"ajax-success"}
\* a failure path that forgets removeClass('ajax-loading')
classesOnErrorKeepsLoading(classes) == classes \cup {"ajax-error"}

\* removeClass('ajax-loading').addClass('ajax-error')
classesOnError(classes) == (classes \ {"ajax-loading"}) \cup {"ajax-error"}

\* what a handler run leaves in last
Log(op, who, url, sent, data, options, s) ==
    [op |-> op, who |-> who, url |-> url, sent |-> sent, data |-> data,
     options |-> options, log |-> s.log, thrown |-> s.thrown]

\* the response bodies the server sends for dataType html and json
HtmlBodies == {Str(""), Str("<p>about</p>")}
EnvSaved == Obj([message |-> Str("Saved"), success |-> Bool(TRUE),
                 form_success |-> Str("Thanks")])
EnvErrors == Obj([form_errors |-> Obj([email |-> Str("Invalid email")]),
                  message |-> Str("Please check the form")])
EnvMoved == Obj([redirect |-> Str("/thanks/"), content |-> Str("<p>new</p>")])
EnvNotes == Obj([notifications |-> Arr(<<Obj([message |-> Str("A")]),
                                         Obj([message |-> Str("B"), type |-> Str("warning")])>>)])
\* the json bodies of the page session
JsonBodies == {Num(0), EnvSaved}
\* more json bodies; undefined is what a 204 response delivers
WideJsonBodies == JsonBodies \cup {Undefined, Null, EnvErrors, EnvMoved, EnvNotes}

\* lines 143-183: the mouseenter/focus handler
mouseenter(el) ==
    /\ hasHandlers(el)
    /\ IF ~cached(ElemUrl[el].v)
       THEN /\ ajaxSend("hover", el, ElemUrl[el].v, isJson(el), Undefined)
            /\ last' = Log("mouseenter", el, ElemUrl[el].v, TRUE, Undefined, Undefined, Begin(dom))
       ELSE /\ last' = Log("mouseenter", el, ElemUrl[el].v, FALSE, Undefined, Undefined, Begin(dom))
            /\ UNCHANGED <<requests, issued, spinnerShow, bodyClasses>>
    /\ UNCHANGED <<ajaxCache, prefersReducedMotion, page, dom, cacheWrites, calls>>

\* lines 154-169: success of a request sent by the mouseenter/focus handler
prefetchSuccess(r, data) ==
    \E s \in {IF r.json
              THEN handleJsonResponse(Begin(dom), data, jsonHandlerOf(r.who),
                                      elementOptions(r.who))
              ELSE Begin(dom)} :
        /\ ajaxCache' = [ajaxCache EXCEPT ![r.url] = data]
        /\ cacheWrites' = [cacheWrites EXCEPT ![r.url] = @ + 1]
        /\ spinnerShow' = FALSE
        /\ bodyClasses' = classesOnSuccess(bodyClasses)
        /\ fxBounded(s.dom)
        /\ dom' = s.dom
        /\ last' = Log("hover.success", r.who, r.url, FALSE, data, elementOptions(r.who), s)

\* a failure callback that drops the entry of its url
prefetchErrorDropsEntry(r) ==
    \E s \in {showNotification(Begin(dom), Str("Failed to preload content"), Str("error"))} :
        /\ spinnerShow' = FALSE
        /\ bodyClasses' = classesOnError(bodyClasses)
        /\ dom' = s.dom
        /\ last' = Log("hover.error", r.who, r.url, FALSE, Undefined, Undefined, s)
        /\ ajaxCache' = [ajaxCache EXCEPT ![r.url] = Undefined]
        /\ UNCHANGED cacheWrites

\* lines 170-180: failure of a request sent by the mouseenter/focus handler
prefetchError(r) ==
    \E s \in {showNotification(Begin(dom), Str("Failed to preload content"), Str("error"))} :
        /\ spinnerShow' = FALSE
        /\ bodyClasses' = classesOnError(bodyClasses)
        /\ dom' = s.dom
        /\ last' = Log("hover.error", r.who, r.url, FALSE, Undefined, Undefined, s)
        /\ UNCHANGED <<ajaxCache, cacheWrites>>

\* lines 186-240: the click handler
click(el) ==
    /\ hasHandlers(el)
    /\ IF ~(ElemAjaxLoad[el] \/ isJson(el))
       THEN /\ last' = Log("click", el, ElemUrl[el].v, FALSE, Undefined, Undefined, Begin(dom))
            /\ UNCHANGED <<requests, issued, spinnerShow, bodyClasses, dom>>
       ELSE IF cached(ElemUrl[el].v)
       THEN \E s \in {IF isJson(el)
                      THEN handleJsonResponse(Begin(dom), ajaxCache[ElemUrl[el].v],
                                              jsonHandlerOf(el), elementOptions(el))
                      ELSE loadAjaxContent(Begin(dom), ajaxCache[ElemUrl[el].v])} :
                /\ fxBounded(s.dom)
                /\ dom' = s.dom
                /\ last' = Log("click", el, ElemUrl[el].v, FALSE,
                               ajaxCache[ElemUrl[el].v], elementOptions(el), s)
                /\ UNCHANGED <<requests, issued, spinnerShow, bodyClasses>>
       ELSE /\ ajaxSend("click", el, ElemUrl[el].v, isJson(el), Undefined)
            /\ last' = Log("click", el, ElemUrl[el].v, TRUE, Undefined, Undefined, Begin(dom))
            /\ UNCHANGED dom
    /\ UNCHANGED <<ajaxCache, prefersReducedMotion, page, cacheWrites, calls>>

\* lines 210-226: success of a request sent by the click handler
clickSuccess(r, data) ==
    \E s \in {IF r.json
              THEN handleJsonResponse(Begin(dom), data, jsonHandlerOf(r.who),
                                      elementOptions(r.who))
              ELSE loadAjaxContent(Begin(dom), data)} :
        /\ ajaxCache' = [ajaxCache EXCEPT ![r.url] = data]
        /\ cacheWrites' = [cacheWrites EXCEPT ![r.url] = @ + 1]
        /\ spinnerShow' = FALSE
        /\ bodyClasses' = classesOnSuccess(bodyClasses)
        /\ fxBounded(s.dom)
        /\ dom' = s.dom
        /\ last' = Log("click.success", r.who, r.url, FALSE, data, elementOptions(r.who), s)

\* lines 227-236: failure of a request sent by the click handler
clickError(r) ==
    \E s \in {showNotification(Begin(dom), Str("Failed to load content"), Str("error"))} :
        /\ spinnerShow' = FALSE
        /\ bodyClasses' = classesOnError(bodyClasses)
        /\ dom' = s.dom
        /\ last' = Log("click.error", r.who, r.url, FALSE, Undefined, Undefined, s)
        /\ UNCHANGED <<ajaxCache, cacheWrites>>

\* the server answers a prefetch or click request with a body of its dataType
success(jsonBodies) ==
    \E r \in requests :
        /\ r.src \in {"hover", "click"}
        /\ \E data \in IF r.json THEN jsonBodies ELSE HtmlBodies :
              IF r.src = "hover" THEN prefetchSuccess(r, data) ELSE clickSuccess(r, data)
        /\ requests' = requests \ {r}
        /\ UNCHANGED <<prefersReducedMotion, page, issued, calls>>

\* a prefetch or click request fails
error ==
    \E r \in requests :
        /\ r.src \in {"hover", "click"}
        /\ IF r.src = "hover" THEN prefetchError(r) ELSE clickError(r)
        /\ requests' = requests \ {r}
        /\ UNCHANGED <<prefersReducedMotion, page, issued, calls>>

(***************************************************************************)
(* sendJsonRequest and the form submissions that use it.                   *)
(***************************************************************************)
\* the error bodies JSON.parse accepts, with the values it returns for them
JsonDocs ==
    [x \in {"{\"message\":\"Invalid email\"}", "{\"message\":\"\"}",
            "{\"detail\":\"denied\"}", "null", "[1]", "\"gone\""} |->
        CASE x = "{\"message\":\"Invalid email\"}" -> Obj([message |-> Str("Invalid email")])
          [] x = "{\"message\":\"\"}" -> Obj([message |-> Str("")])
          [] x = "{\"detail\":\"denied\"}" -> Obj([detail |-> Str("denied")])
          [] x = "null" -> Null
          [] x = "[1]" -> Arr(<<Num(1)>>)
          [] x = "\"gone\"" -> Str("gone")]

\* JSON.parse(text): the value, or ok = FALSE for the SyntaxError it throws
JSONParse(text) ==
    IF text \in DOMAIN JsonDocs THEN [ok |-> TRUE, v |-> JsonDocs[text]]
    ELSE [ok |-> FALSE, v |-> Undefined]

Text10 == "Bad Gatewa"
Text50 == Text10 \o "y: upstrea" \o "m server d" \o "id not ans" \o "wer in tim"
\* non-JSON error bodies of 99, 100, 101 and 150 characters
Text100 == Text50 \o Text50
Text99 == SubSeq(Text100, 1, 99)
Text101 == Text100 \o "e"
Text150 == Text100 \o Text50

\* xhr.responseText of a failed request; undefined when nothing was received
ErrorBodies ==
    {Undefined, Str(""), Str("Internal Server Error"),
     Str(Text99), Str(Text100), Str(Text101), Str(Text150)}
    \cup {Str(x) : x \in DOMAIN JsonDocs}

\* line 525
TruncLen == 100

\* text.substring(0, n)
substring0(text, n) == SubSeq(text, 1, IF Len(text) < n THEN Len(text) ELSE n)

\* the fallback without the '...' appended
errorMessageOfNoEllipsis(responseText) ==
    IF ~Truthy(responseText) THEN Str("Request failed")
    ELSE LET p == JSONParse(responseText.v)
         IN  IF ~p.ok \/ Nullish(p.v)
             THEN Str(substring0(responseText.v, TruncLen))
             ELSE OrElse(Get(p.v, "message"), Str("Request failed"))

\* lines 518-527: the message the failure notification carries
errorMessageOf(responseText) ==
    IF ~Truthy(responseText) THEN Str("Request failed")
    ELSE LET p == JSONParse(responseText.v)
         IN  \* a SyntaxError of JSON.parse, or the TypeError of null.message
             IF ~p.ok \/ Nullish(p.v)
             THEN Str(substring0(responseText.v, TruncLen) \o "...")
             ELSE OrElse(Get(p.v, "message"), Str("Request failed"))

\* the test written as if (options.handleResponse)
wantsHandlingTruthy(options) == Truthy(Get(options, "handleResponse"))

\* line 503
wantsHandling(options) == Get(options, "handleResponse") # Bool(FALSE)

\* a sendJsonRequest that answers from ajaxCache when it holds the url
sendJsonRequestFromCache(who, url, options) ==
    IF url \in CacheUrls /\ Truthy(ajaxCache[url])
    THEN UNCHANGED <<requests, issued, spinnerShow, bodyClasses>>
    ELSE ajaxSend("json", who, url, TRUE, options)

\* lines 481-497: every call sends a request; ajaxCache is not consulted
sendJsonRequest(who, url, options) ==
    ajaxSend("json", who, url, TRUE, options)

\* lines 451-470: submit of a form carrying data-json-form.  $form.selector
\* is empty for $(this), so formSelector is always the generic selector
submit(f) ==
    /\ sendJsonRequest(f, ToText(OrElse(FormAction[f], Str(dom.location))),
                       Obj([formSelector |-> Str("form[data-json-form]"),
                            responseType |-> Str("form")]))
    /\ last' = Log("submit", f, ToText(OrElse(FormAction[f], Str(dom.location))),
                   TRUE, Undefined, Undefined, Begin(dom))
    /\ UNCHANGED <<ajaxCache, prefersReducedMotion, page, dom, cacheWrites, calls>>

\* the options other scripts pass to window.StVeronicaFoundation.sendJsonRequest
ApiOptions ==
    {Obj(<<>>),
     Obj([handleResponse |-> Bool(FALSE), responseType |-> Str("form")]),
     Obj([handleResponse |-> Null, responseType |-> Str("notification")]),
     Obj([responseType |-> Str("form"), formSelector |-> Str("#missing")])}
ApiUrl == "/api/subscribe/"

\* line 760: sendJsonRequest called through the public object
apiSendJsonRequest(url, options) ==
    /\ sendJsonRequest("api", url, options)
    /\ last' = Log("sendJsonRequest", "api", url, TRUE, Undefined, options, Begin(dom))
    /\ UNCHANGED <<ajaxCache, prefersReducedMotion, page, dom, cacheWrites, calls>>

\* lines 498-509: the done callback
done(r, data) ==
    \E s \in {IF wantsHandling(r.options)
              THEN handleJsonResponse(Begin(dom), data,
                       OrElse(Get(r.options, "responseType"), Str("default")),
                       r.options)
              ELSE Begin(dom)} :
        /\ spinnerShow' = FALSE
        /\ bodyClasses' = classesOnSuccess(bodyClasses)
        /\ fxBounded(s.dom)
        /\ dom' = s.dom
        /\ last' = Log("done", r.who, r.url, FALSE, data, r.options, s)

\* a fail callback whose JSON.parse is not inside a try block: the exception
\* leaves the callback before the notification and the event
failWithoutTry(r, responseText) ==
    \E s2 \in {IF Truthy(responseText)
                  /\ (~JSONParse(responseText.v).ok \/ Nullish(JSONParse(responseText.v).v))
               THEN throw(Begin(dom))
               ELSE trigger(showNotification(Begin(dom), errorMessageOf(responseText),
                                             Str("error")),
                            "stveronica.jsonRequestFailed", <<responseText>>)} :
        /\ spinnerShow' = FALSE
        /\ bodyClasses' = classesOnError(bodyClasses)
        /\ dom' = s2.dom
        /\ last' = Log("fail", r.who, r.url, FALSE, responseText, r.options, s2)

\* lines 510-533: the fail callback
fail(r, responseText) ==
    \E s2 \in {trigger(showNotification(Begin(dom), errorMessageOf(responseText),
                                       Str("error")),
                      "stveronica.jsonRequestFailed", <<responseText>>)} :
        /\ spinnerShow' = FALSE
        /\ bodyClasses' = classesOnError(bodyClasses)
        /\ dom' = s2.dom
        /\ last' = Log("fail", r.who, r.url, FALSE, responseText, r.options, s2)

\* the server answers a sendJsonRequest request
jsonDone(jsonBodies) ==
    \E r \in requests :
        /\ r.src = "json"
        /\ \E data \in jsonBodies : done(r, data)
        /\ requests' = requests \ {r}
        /\ UNCHANGED <<ajaxCache, prefersReducedMotion, page, issued, cacheWrites, calls>>

\* a sendJsonRequest request fails
jsonFail(errorBodies) ==
    \E r \in requests :
        /\ r.src = "json"
        /\ \E body \in errorBodies : fail(r, body)
        /\ requests' = requests \ {r}
        /\ UNCHANGED <<ajaxCache, prefersReducedMotion, page, issued, cacheWrites, calls>>

(***************************************************************************)
(* Deferred work: animation callbacks; and the user typing.                *)
(***************************************************************************)
\* the completion callback at the head of an element's animation queue:
\* lines 255-257 and 732-734 write the html, lines 585-587 navigate
fxComplete(e) ==
    /\ dom.fx[e] # <<>>
    /\ LET c == Head(dom.fx[e])
           d == [dom EXCEPT !.fx[e] = Tail(@)]
       IN  dom' = CASE e = "ajaxContainer" -> [d EXCEPT !.ajaxContainer = c.arg]
                    [] e = "searchContainer" -> [d EXCEPT !.searchContainer = c.arg]
                    [] OTHER -> [d EXCEPT !.location = ToText(c.arg)]
    /\ last' = Log("fx", e, "", FALSE, Undefined, Undefined,
                   IF e = "contentWrapper"
                   THEN [Begin(dom) EXCEPT !.log = <<[k |-> "navigate",
                                                      url |-> ToText(Head(dom.fx[e]).arg)]>>]
                   ELSE Begin(dom))
    /\ UNCHANGED <<ajaxCache, prefersReducedMotion, page, requests, issued,
                   spinnerShow, bodyClasses, cacheWrites, calls>>

\* the user types into a field of a form
input(f) ==
    /\ ~dom.formDirty[f]
    /\ dom' = [dom EXCEPT !.formDirty[f] = TRUE]
    /\ last' = Log("input", f, "", FALSE, Undefined, Undefined, Begin(dom))
    /\ UNCHANGED <<ajaxCache, prefersReducedMotion, page, requests, issued,
                   spinnerShow, bodyClasses, cacheWrites, calls>>

(***************************************************************************)
(* The page session: document ready, then any interleaving of handlers.    *)
(***************************************************************************)
Init ==
    /\ ajaxCache = [u \in CacheUrls |-> Undefined]
    /\ prefersReducedMotion \in BOOLEAN
    /\ page = [ajaxContainer |-> TRUE, contentWrapper |-> TRUE]
    /\ requests = {}
    /\ issued = 0
    /\ spinnerShow = FALSE
    /\ bodyClasses = {}
    /\ dom = InitDom
    /\ cacheWrites = [u \in CacheUrls |-> 0]
    /\ calls = 0
    /\ last = Log("ready", "document", "", FALSE, Undefined, Undefined, Begin(InitDom))

\* the error bodies of the page session
PageErrorBodies == {Undefined, Str("Internal Server Error")}
PageApiOptions == {Obj(<<>>), Obj([handleResponse |-> Bool(FALSE)])}

Next ==
    \/ \E el \in PrefetchElements : mouseenter(el)
    \/ \E el \in PrefetchElements : click(el)
    \/ success(JsonBodies)
    \/ error
    \/ \E f \in FormSet : submit(f)
    \/ \E options \in PageApiOptions : apiSendJsonRequest("/about/", options)
    \/ jsonDone(JsonBodies)
    \/ jsonFail(PageErrorBodies)
    \/ \E e \in FxElements : fxComplete(e)

Spec == Init /\ [][Next]_vars

\* the sendJsonRequest flows alone, over more options and response bodies
NextJson ==
    \/ \E f \in FormSet : input(f)
    \/ \E f \in FormSet : submit(f)
    \/ \E options \in ApiOptions : apiSendJsonRequest(ApiUrl, options)
    \/ jsonDone(WideJsonBodies)
    \/ jsonFail(PageErrorBodies)
    \/ \E e \in FxElements : fxComplete(e)

SpecJson == Init /\ [][NextJson]_vars

\* the sendJsonRequest flows alone, over more error bodies
NextFail ==
    \/ \E f \in FormSet : submit(f)
    \/ \E options \in ApiOptions : apiSendJsonRequest(ApiUrl, options)
    \/ jsonDone({EnvSaved})
    \/ jsonFail(ErrorBodies)

SpecFail == Init /\ [][NextFail]_vars

(***************************************************************************)
(* The response router called directly: handleJsonResponse is exported on  *)
(* window.StVeronicaFoundation (line 756).                                 *)
(***************************************************************************)
\* the most calls to handleJsonResponse one run of the model makes
MaxCalls == 1

\* f overridden and extended by g
Merge(f, g) ==
    [k \in DOMAIN f \cup DOMAIN g |-> IF k \in DOMAIN g THEN g[k] ELSE f[k]]

\* the generic fields an envelope can carry
GenericFields == [message |-> Str("Saved"), success |-> Bool(TRUE),
                  redirect |-> Str("/thanks/"), content |-> Str("<p>new</p>")]
GenericParts == {[k \in S |-> GenericFields[k]] : S \in SUBSET DOMAIN GenericFields}
FewGenericParts ==
    {gp \in GenericParts : DOMAIN gp \in {{}, {"message", "success"},
                                          {"message", "redirect"}, {"content"}}}

Result1 == Obj([url |-> Str("/care/"), title |-> Str("Care"), excerpt |-> Str("Home care")])
Result2 == Obj([url |-> Str("/give/"), title |-> Str("Give")])
NoteA == Obj([message |-> Str("A")])
NoteB == Obj([message |-> Str("B"), type |-> Str("warning")])

FormParts ==
    {<<>>,
     [form_errors |-> Obj([email |-> Str("Invalid email")])],
     [form_success |-> Str("Thanks")],
     [form_errors |-> Obj([email |-> Str("Invalid email"), name |-> Str("Required")]),
      form_success |-> Str("Thanks")]}
SearchParts ==
    {[search_results |-> Arr(<<>>)],
     [search_results |-> Arr(<<Result1, Result2>>), search_query |-> Str("care")],
     [search_results |-> Arr(<<Result1, Null>>)],
     [search_results |-> Str("none")]}
NotificationParts ==
    {[notifications |-> Arr(<<NoteA, NoteB>>)],
     [notifications |-> Arr(<<NoteA, Null>>)],
     [notifications |-> Obj(<<>>)]}

FormOptions ==
    {Obj([formSelector |-> Str("form[data-json-form]")]),
     Obj([formSelector |-> Str("#f2")]),
     Obj([formSelector |-> Str("#missing")]),
     Obj([formSelector |-> Str("#signup")]),
     Obj(<<>>)}
SearchOptions ==
    {Obj([containerSelector |-> Str("#search-results")]), Obj(<<>>)}

Envelopes(parts, generic) == {Obj(Merge(sp, gp)) : sp \in parts, gp \in generic}

\* the calls <<data, responseType, options>> other scripts make
RouterCalls ==
    (Envelopes(FormParts, FewGenericParts) \X {Str("form")} \X FormOptions)
    \cup (Envelopes(SearchParts, FewGenericParts) \X {Str("search")} \X SearchOptions)
    \cup (Envelopes(NotificationParts, FewGenericParts) \X {Str("notification")} \X {Undefined})
    \cup (Envelopes({<<>>}, GenericParts) \X {Str("default"), Str("other"), Undefined}
            \X {Undefined})
    \cup (Envelopes(FormParts \cup SearchParts \cup NotificationParts, {<<>>})
            \X {Str("default"), Str("other")}
            \X {Obj([formSelector |-> Str("#f2"),
                     containerSelector |-> Str("#search-results")])})
    \cup ({Null, Undefined, Num(0), Str("ok")}
            \X {Str("form"), Str("search"), Str("notification"), Str("default")}
            \X {Obj(<<>>)})

apiHandleJsonResponse(data, responseType, options) ==
    \E s \in {handleJsonResponse(Begin(dom), data, responseType, options)} :
        /\ calls < MaxCalls
        /\ calls' = calls + 1
        /\ fxBounded(s.dom)
        /\ dom' = s.dom
        /\ last' = Log("handleJsonResponse", "api", "", FALSE, data, options, s)
        /\ UNCHANGED <<ajaxCache, prefersReducedMotion, page, requests, issued,
                       spinnerShow, bodyClasses, cacheWrites>>

InitRouter ==
    /\ ajaxCache = [u \in CacheUrls |-> Undefined]
    /\ prefersReducedMotion \in BOOLEAN
    /\ page \in [ajaxContainer : BOOLEAN, contentWrapper : BOOLEAN]
    /\ requests = {}
    /\ issued = 0
    /\ spinnerShow = FALSE
    /\ bodyClasses = {}
    /\ dom = InitDom
    /\ cacheWrites = [u \in CacheUrls |-> 0]
    /\ calls = 0
    /\ last = Log("ready", "document", "", FALSE, Undefined, Undefined, Begin(InitDom))

NextRouter ==
    \/ \E c \in RouterCalls : apiHandleJsonResponse(c[1], c[2], c[3])
    \/ \E e \in FxElements : fxComplete(e)

SpecRouter == InitRouter /\ [][NextRouter]_vars

(***************************************************************************)
(* A search page: a collaborator routes the response of each search to     *)
(* handleJsonResponse with type 'search' and the page's results container. *)
(***************************************************************************)
\* the most search responses one run of the model routes
MaxSearches == 3

\* the envelopes of the search responses
SearchEnvelopes ==
    {Obj([search_results |-> Arr(<<>>), search_query |-> Str("zzz")]),
     Obj([search_results |-> Arr(<<Result1>>), search_query |-> Str("home")]),
     Obj([search_results |-> Arr(<<Result1, Result2>>), search_query |-> Str("care")]),
     Obj([search_results |-> Arr(<<Result2, Result1>>), search_query |-> Str("give")]),
     Obj([search_results |-> Arr(<<Result2>>)]),
     Obj([search_results |-> Arr(<<>>)])}

apiSearch(data) ==
    \E s \in {handleJsonResponse(Begin(dom), data, Str("search"),
                                 Obj([containerSelector |-> Str("#search-results")]))} :
        /\ calls < MaxSearches
        /\ calls' = calls + 1
        /\ fxBounded(s.dom)
        /\ dom' = s.dom
        /\ last' = Log("handleJsonResponse", "search", "", FALSE, data,
                       Obj([containerSelector |-> Str("#search-results")]), s)
        /\ UNCHANGED <<ajaxCache, prefersReducedMotion, page, requests, issued,
                       spinnerShow, bodyClasses, cacheWrites>>

NextSearch ==
    \/ \E data \in SearchEnvelopes : apiSearch(data)
    \/ \E e \in FxElements : fxComplete(e)

SpecSearch == Init /\ [][NextSearch]_vars

(***************************************************************************)
(* Properties.                                                             *)
(***************************************************************************)
LoadingActive == spinnerShow \/ "ajax-loading" \in bodyClasses
PrefetchOps == {"mouseenter", "click"}
SuccessOps == {"hover.success", "click.success"}
ErrorOps == {"hover.error", "click.error"}
\* the prefetch and click requests for url u that are in flight
InFlight(u) == {r \in requests : r.src \in {"hover", "click"} /\ r.url = u}

\* C1: whenever the loading indicator is active (the spinner's show class
\* or the body's ajax-loading class), some request has run its beforeSend
\* and has not yet run its success or failure callback; so when every
\* request sent has terminated, the indicator is inactive.
C1_LoadingImpliesPending == LoadingActive => requests # {}

\* a request went out and terminated, and a later one is now in flight
\* with the indicator active
C1_Witness ==
    /\ spinnerShow /\ "ajax-loading" \in bodyClasses
    /\ issued = 2 /\ Cardinality(requests) = 1

\* C2 (as claimed): the body never carries ajax-success and ajax-error at
\* the same time, whatever requests have completed.
C2_OneTerminalClass == ~({"ajax-success", "ajax-error"} \subseteq bodyClasses)

\* C3 (as claimed): the entry of a url is written exactly once, also when a
\* second hover or a click comes while the first request is in flight: an
\* entry that has been written is not written again.
C3_WrittenOnce ==
    [][\A u \in CacheUrls :
          (cacheWrites[u] >= 1 /\ Truthy(ajaxCache[u])) => cacheWrites'[u] = cacheWrites[u]]_vars

\* C3 (amended): a hover/focus or click sends a request only when the cache
\* holds no non-empty entry for its url at that moment; the entry of a url is
\* written once by each successful response to such a request and by nothing
\* else, so the writes never exceed the requests for the url that have
\* terminated (one interaction and its response: one write).
C3_OneWritePerResponse ==
    [][/\ (last'.op \in PrefetchOps /\ last'.sent) => ~Truthy(ajaxCache[last'.url])
       /\ \A u \in CacheUrls :
            /\ cacheWrites'[u] =
                 cacheWrites[u] + (IF last'.op \in SuccessOps /\ last'.url = u THEN 1 ELSE 0)
            /\ cacheWrites'[u] + Cardinality(InFlight(u)') <= issued']_vars

\* two requests for one url were in flight together and both have written
C3_Witness ==
    /\ last.op \in SuccessOps
    /\ cacheWrites[last.url] = 2
    /\ Truthy(ajaxCache[last.url])

\* C4 (as claimed): once a successful fetch has written the entry of a url,
\* whatever the body, no later hover/focus or click on that url sends a
\* request.
C4_NoRequestOnceWritten ==
    (last.op \in PrefetchOps /\ last.sent) => cacheWrites[last.url] = 0

\* C5: the cache is append-only and written on the success path alone: no
\* step removes a url from it, a failure callback leaves the whole cache as
\* it was, and only a success callback of a prefetch or click request
\* changes it.
C5_AppendOnly ==
    [][/\ \A u \in CacheUrls : ajaxCache[u] # Undefined => ajaxCache'[u] # Undefined
       /\ last'.op \in ErrorOps \cup {"fail"} => ajaxCache' = ajaxCache
       /\ ajaxCache' # ajaxCache => last'.op \in SuccessOps]_vars

\* a request has just failed while the cache holds an entry
C5_Witness ==
    /\ last.op \in ErrorOps
    /\ \E u \in CacheUrls : ajaxCache[u] # Undefined

\* C6: sendJsonRequest is never cached: a form submission or a direct call
\* always sends a request, also when the cache holds an entry for its url,
\* and its done and fail callbacks leave the cache as it was and route the
\* body of the response, not a cache entry.
C6_NeverCached ==
    [][/\ last'.op \in {"submit", "sendJsonRequest"} =>
            /\ issued' = issued + 1
            /\ \E r \in requests' \ requests : r.src = "json" /\ r.url = last'.url
            /\ ajaxCache' = ajaxCache
       /\ last'.op \in {"done", "fail"} =>
            /\ ajaxCache' = ajaxCache /\ cacheWrites' = cacheWrites
            /\ \A i \in DOMAIN last'.log :
                  last'.log[i].k = "route" => last'.log[i].call.data = last'.data]_vars

\* a sendJsonRequest request is in flight for a url the cache holds
C6_Witness ==
    \E r \in requests :
        r.src = "json" /\ r.url \in CacheUrls /\ Truthy(ajaxCache[r.url])

\* C7: when a sendJsonRequest request succeeds, the parsed body goes to
\* handleJsonResponse exactly once, with options.responseType (or 'default'
\* when none is declared) and the options, if and only if
\* options.handleResponse is not exactly false; with handleResponse ===
\* false the router is not called and the document is left as it was.
C7_RoutedUnlessOptedOut ==
    [][last'.op = "done" =>
         IF Get(last'.options, "handleResponse") = Bool(FALSE)
         THEN last'.log = <<>> /\ dom' = dom
         ELSE /\ Len(Entries(last'.log, "route")) = 1
              /\ Entries(last'.log, "route")[1].call =
                    [data |-> last'.data,
                     responseType |-> IF Truthy(Get(last'.options, "responseType"))
                                      THEN Get(last'.options, "responseType")
                                      ELSE Str("default"),
                     options |-> last'.options]]_vars

\* a request sent with handleResponse: false has succeeded with an envelope
\* that carries a message
C7_Witness ==
    /\ last.op = "done"
    /\ Get(last.options, "handleResponse") = Bool(FALSE)
    /\ last.data = EnvSaved
    /\ last.log = <<>>

\* C8: every failed sendJsonRequest request, whatever its error body, clears
\* the loading state, emits exactly one notification, of severity 'error',
\* and then triggers stveronica.jsonRequestFailed exactly once; nothing
\* propagates out of the callback.
C8_FailureHandled ==
    last.op = "fail" =>
        /\ ~spinnerShow /\ "ajax-loading" \notin bodyClasses
        /\ ~last.thrown
        /\ Len(last.log) = 2
        /\ last.log[1].k = "notify" /\ last.log[1].type = Str("error")
        /\ last.log[2].k = "trigger" /\ last.log[2].name = "stveronica.jsonRequestFailed"

\* a request has failed with the body null, which JSON.parse accepts and
\* whose message cannot be read
C8_Witness ==
    /\ last.op = "fail"
    /\ last.data = Str("null")
    /\ Len(last.log) = 2

\* the first 100 characters of a text
First100(text) == IF Len(text) <= 100 THEN text ELSE SubSeq(text, 1, 100)
\* the message of the notification a fail callback has emitted
FailureMessage == last.log[1].message
NonEmptyBodyFailed == last.op = "fail" /\ last.data.t = "string" /\ last.data.v # ""

Raises(call) ==
    \/ Nullish(call.data)
    \/ /\ call.responseType = Str("form")
       /\ Truthy(Get(call.data, "form_success"))
       /\ Truthy(Get(call.options, "formSelector"))
       /\ MatchForms(Get(call.options, "formSelector")) = <<>>
    \/ /\ call.responseType = Str("search")
       /\ Truthy(Get(call.data, "search_results"))
       /\ MatchesSearchContainer(Get(call.options, "containerSelector"))
       /\ \/ Get(call.data, "search_results").t # "array"
          \/ \E i \in DOMAIN Get(call.data, "search_results").v :
                Nullish(Get(call.data, "search_results").v[i])
    \/ /\ call.responseType = Str("notification")
       /\ Truthy(Get(call.data, "notifications"))
       /\ \/ Get(call.data, "notifications").t # "array"
          \/ \E i \in DOMAIN Get(call.data, "notifications").v :
                Nullish(Get(call.data, "notifications").v[i])

IsErrorProcessingNote(e) ==
    e.k = "notify" /\ e.message = ErrorProcessing /\ e.type = Str("error")
IsJsonProcessed(e) == e.k = "trigger" /\ e.name = "stveronica.jsonProcessed"

\* C10: handleJsonResponse returns true exactly when the envelope was
\* handled without an exception; when one is raised (a null envelope, a
\* form_success whose formSelector matches no form, ...) it is caught, one
\* 'Error processing server response' notification of severity 'error' is
\* emitted as the last thing before false is returned, and nothing
\* propagates to the caller.
C10_TrueIffNoException ==
    last.op = "handleJsonResponse" =>
        LET n == Len(last.log)
            route == last.log[n]
        IN  /\ ~last.thrown
            /\ n >= 1 /\ route.k = "route"
            /\ route.ret = ~Raises(route.call)
            /\ IF route.ret
               THEN /\ \A i \in 1..n : ~IsErrorProcessingNote(last.log[i])
                    /\ IsJsonProcessed(last.log[n - 1])
               ELSE /\ n >= 2 /\ IsErrorProcessingNote(last.log[n - 1])
                    /\ \A i \in 1..(n - 2) : ~IsErrorProcessingNote(last.log[i])
                    /\ \A i \in 1..n : ~IsJsonProcessed(last.log[i])

\* a form envelope with form_success was routed with a formSelector that
\* matches no form, after its field errors had been handled
C10_Witness ==
    /\ last.op = "handleJsonResponse"
    /\ Truthy(Get(last.data, "form_success"))
    /\ Get(last.options, "formSelector") = Str("#missing")
    /\ last.log[Len(last.log)].ret = FALSE

\* the call recorded by a run of handleJsonResponse
Call(l) == l.log[Len(l.log)].call
TypeTags == {Str("form"), Str("search"), Str("notification")}
\* the notifications the type-specific branch of a call emits
SpecificNoteCount(call) ==
    IF call.responseType = Str("form") /\ Truthy(Get(call.data, "form_success")) THEN 1
    ELSE IF call.responseType = Str("notification")
            /\ Truthy(Get(call.data, "notifications"))
    THEN Len(Get(call.data, "notifications").v)
    ELSE 0
\* the notification and the immediate navigation the generic step makes
GenericEntryCount(data, reduced) ==
    (IF Truthy(Get(data, "message")) THEN 1 ELSE 0)
    + (IF Truthy(Get(data, "redirect")) /\ reduced THEN 1 ELSE 0)

\* C11: for every response type tag, handleJsonResponse runs the generic
\* processing (message, redirect, content, then stveronica.jsonProcessed)
\* once per envelope and only after the type-specific branch has finished:
\* the type-specific notifications come first, the generic ones follow and
\* the event is the last thing before the return; it never runs when the
\* branch raises.  An unmatched tag gets the generic processing alone: no
\* form, search or notification field is acted upon.
C11_GenericOnceAfterBranch ==
    [][last'.op = "handleJsonResponse" =>
         LET log == last'.log
             n == Len(last'.log)
             call == Call(last')
             k == SpecificNoteCount(Call(last'))
         IN  /\ Cardinality({i \in 1..n : IsJsonProcessed(log[i])})
                   = IF Raises(call) THEN 0 ELSE 1
             /\ ~Raises(call) =>
                   /\ n = k + GenericEntryCount(call.data, prefersReducedMotion) + 2
                   /\ \A i \in 1..k : log[i].k = "notify"
                   /\ Truthy(Get(call.data, "message")) =>
                         /\ log[k + 1].k = "notify"
                         /\ log[k + 1].message = Get(call.data, "message")
                   /\ IsJsonProcessed(log[n - 1])
                   /\ log[n - 1].args = <<call.data, call.options>>
             /\ call.responseType \notin TypeTags =>
                   /\ dom'.fieldInvalid = dom.fieldInvalid
                   /\ dom'.fieldErrors = dom.fieldErrors
                   /\ dom'.formDirty = dom.formDirty
                   /\ dom'.searchContainer = dom.searchContainer
                   /\ dom'.searchQuery = dom.searchQuery
                   /\ dom'.fx["searchContainer"] = dom.fx["searchContainer"]
                   /\ k = 0]_vars

\* a form envelope with form_success and message was routed to the end
C11_Witness ==
    /\ last.op = "handleJsonResponse"
    /\ Call(last).responseType = Str("form")
    /\ Truthy(Get(last.data, "form_success"))
    /\ Truthy(Get(last.data, "message"))
    /\ last.log[Len(last.log)].ret = TRUE

\* an envelope with form fields was routed with an unmatched tag
C11_WitnessUnmatched ==
    /\ last.op = "handleJsonResponse"
    /\ Call(last).responseType = Str("other")
    /\ Truthy(Get(last.data, "form_errors"))

\* entry i of a log is the notification of the envelope's message
IsMessageNote(log, i, data) ==
    log[i].k = "notify" /\ log[i].message = Get(data, "message")
\* entry j of a log is a navigation
IsNavigation(log, j) == log[j].k = "navigate"

\* C12: for every envelope with both message and redirect that is handled
\* to the end, with any response type tag, the message notification is
\* emitted before the navigation to the redirect url begins: with reduced
\* motion the navigation follows the notification within the call, without
\* it the navigation is left to the fade callback of .content-wrapper,
\* which runs after the call; and the address never changes in any other
\* way.
C12_NotifyBeforeNavigate ==
    [][/\ (/\ last'.op = "handleJsonResponse"
           /\ ~Raises(Call(last'))
           /\ Truthy(Get(last'.data, "message"))
           /\ Truthy(Get(last'.data, "redirect"))) =>
              LET log == last'.log
                  n == Len(last'.log)
                  to == ToText(Get(last'.data, "redirect"))
              IN  /\ \E i \in 1..n : IsMessageNote(log, i, last'.data)
                  /\ \A j \in 1..n : IsNavigation(log, j) =>
                        /\ log[j].url = to
                        /\ \E i \in 1..(j - 1) : IsMessageNote(log, i, last'.data)
                  /\ IF prefersReducedMotion
                     THEN /\ \E j \in 1..n : IsNavigation(log, j)
                          /\ dom'.location = to
                     ELSE /\ \A j \in 1..n : ~IsNavigation(log, j)
                          /\ dom'.location = dom.location
                          /\ dom'.fx["contentWrapper"] =
                                IF page.contentWrapper
                                THEN Append(dom.fx["contentWrapper"],
                                            [cb |-> "redirect",
                                             arg |-> Get(last'.data, "redirect")])
                                ELSE dom.fx["contentWrapper"]
       /\ dom'.location # dom.location =>
              \/ last'.op = "fx" /\ last'.who = "contentWrapper"
                 /\ dom.fx["contentWrapper"] # <<>>
              \/ last'.op = "handleJsonResponse" /\ prefersReducedMotion
                 /\ \E j \in 1..Len(last'.log) : IsNavigation(last'.log, j)]_vars

\* without reduced motion, the deferred navigation of an envelope with
\* message and redirect has run, after its notification
C12_Witness ==
    /\ last.op = "fx" /\ last.who = "contentWrapper"
    /\ ~prefersReducedMotion
    /\ dom.location = "/thanks/"
    /\ dom.toast.message = "Saved"

\* a form submitted through initFormSubmissions has received its response
FormAnswered == last.op = "done" /\ last.who \in FormSet
\* the fields of the originating form that form_errors names
NamedFields(f, errors) == {x \in Fields : x[1] = f /\ x[2] \in Keys(errors)}

\* C13 (as claimed): when a submitted form receives an envelope with
\* form_errors, every error message and invalid marker on the page after
\* the response belongs to a field of the originating form that form_errors
\* names; each such field carries the marker and exactly one message, its
\* own; no other field of this or of another form has a message or a
\* marker.
C13_ErrorsOnOriginatingForm ==
    (FormAnswered /\ Truthy(Get(last.data, "form_errors"))) =>
        \A x \in Fields :
            IF x \in NamedFields(last.who, Get(last.data, "form_errors"))
            THEN /\ dom.fieldInvalid[x]
                 /\ dom.fieldErrors[x] = <<ToText(Get(last.data, "form_errors").f[x[2]])>>
            ELSE /\ ~dom.fieldInvalid[x]
                 /\ dom.fieldErrors[x] = <<>>

\* C14 (as claimed): when a submitted form receives an envelope with
\* form_success, the originating form has been reset and a notification
\* with the form_success text was emitted at severity 'success'.
C14_OriginatingFormReset ==
    (FormAnswered /\ Truthy(Get(last.data, "form_success"))) =>
        /\ ~dom.formDirty[last.who]
        /\ \E i \in 1..Len(last.log) :
              /\ last.log[i].k = "notify"
              /\ last.log[i].message = Get(last.data, "form_success")
              /\ last.log[i].type = Str("success")

\* the log entry of showNotification(entry.message, entry.type || 'info')
NoteOf(entry) ==
    [k |-> "notify", message |-> Get(entry, "message"),
     type |-> IF Truthy(Get(entry, "type")) THEN Get(entry, "type") ELSE Str("info")]
NotifyCount(log) == Cardinality({i \in 1..Len(log) : log[i].k = "notify"})

\* C15: an envelope routed with type 'notification' that carries a list of
\* notifications gives one notification per entry, in the order of the
\* list, each with the entry's message and with the entry's type as
\* severity ('info' when the entry has none); the generic notification of
\* the envelope's message comes after them, and there is no other.
C15_OnePerEntryInOrder ==
    (/\ last.op = "handleJsonResponse"
     /\ Call(last).responseType = Str("notification")
     /\ Truthy(Get(last.data, "notifications"))
     /\ ~Raises(Call(last))) =>
        LET q == Get(last.data, "notifications").v
            m == IF Truthy(Get(last.data, "message")) THEN 1 ELSE 0
        IN  /\ Len(last.log) >= Len(q) + m
            /\ \A i \in 1..Len(q) : last.log[i] = NoteOf(q[i])
            /\ NotifyCount(last.log) = Len(q) + m
            /\ m = 1 => IsMessageNote(last.log, Len(q) + 1, last.data)

\* the list <<{message: "A"}, {message: "B", type: "warning"}>> was routed
\* in an envelope that also carries a message
C15_Witness ==
    /\ last.op = "handleJsonResponse"
    /\ Call(last).responseType = Str("notification")
    /\ Get(last.data, "notifications") = Arr(<<NoteA, NoteB>>)
    /\ Truthy(Get(last.data, "message"))
    /\ last.log[1].type = Str("info")
    /\ last.log[2].type = Str("warning")

\* the list displaySearchResults renders for a non-empty sequence of results
Rendered(results) ==
    [t |-> "ul",
     v |-> [i \in 1..Len(results.v) |->
              [url |-> ToText(Get(results.v[i], "url")),
               title |-> ToText(Get(results.v[i], "title")),
               excerpt |-> ToText(Get(results.v[i], "excerpt"))]]]

\* C16: for an envelope routed with type 'search' whose search_results is
\* present and whose container exists, the container's content is
\* replaced: an empty sequence writes the 'No results found.' message at
\* once; a non-empty sequence writes a list with one item per result, in
\* the order of the sequence, at once with reduced motion and in the
\* completion callback of the fade-out otherwise.
C16_ResultsReplaceContent ==
    [][/\ (/\ last'.op = "handleJsonResponse"
           /\ Call(last').responseType = Str("search")
           /\ Truthy(Get(last'.data, "search_results"))
           /\ MatchesSearchContainer(Get(Call(last').options, "containerSelector"))
           /\ ~Raises(Call(last'))) =>
              LET results == Get(last'.data, "search_results")
              IN  IF Len(results.v) = 0
                  THEN /\ dom'.searchContainer = Str("<p>No results found.</p>")
                       /\ dom'.fx["searchContainer"] = dom.fx["searchContainer"]
                  ELSE IF prefersReducedMotion
                  THEN /\ dom'.searchContainer = Rendered(results)
                       /\ Len(dom'.searchContainer.v) = Len(results.v)
                       /\ dom'.fx["searchContainer"] = dom.fx["searchContainer"]
                  ELSE /\ dom'.searchContainer = dom.searchContainer
                       /\ dom'.fx["searchContainer"] =
                             Append(dom.fx["searchContainer"],
                                    [cb |-> "html", arg |-> Rendered(results)])
       /\ (last'.op = "fx" /\ last'.who = "searchContainer") =>
              /\ dom.fx["searchContainer"] # <<>>
              /\ dom'.searchContainer = Head(dom.fx["searchContainer"]).arg]_vars

\* an empty sequence of results was routed to the existing container
C16_Witness ==
    /\ last.op = "handleJsonResponse"
    /\ Call(last).responseType = Str("search")
    /\ Get(last.data, "search_results") = Arr(<<>>)
    /\ dom.searchContainer = NoResultsHtml

\* without reduced motion, the list of two results has been written by the
\* fade-out callback
C16_WitnessList ==
    /\ last.op = "fx" /\ last.who = "searchContainer"
    /\ ~prefersReducedMotion
    /\ dom.searchContainer = Rendered(Arr(<<Result1, Result2>>))

Severities == {"success", "error", "warning", "info"}
\* the showNotification calls of the handler that ran last
LastNotes == Entries(last.log, "notify")

\* C17 (as claimed): after a handler has called showNotification, the one
\* toast element exists, its text is the message of the last call and,
\* among the classes success, error, warning and info, it carries exactly
\* the severity of the last call.
C17_ToastShowsLastCall ==
    LastNotes # <<>> =>
        /\ dom.toast.exists
        /\ dom.toast.message = ToText(LastNotes[Len(LastNotes)].message)
        /\ dom.toast.classes \cap Severities
              = {ToText(LastNotes[Len(LastNotes)].type)}

\* the part of C17 about the element and its text alone
C17_ToastTextOfLastCall ==
    LastNotes # <<>> =>
        /\ dom.toast.exists
        /\ dom.toast.message = ToText(LastNotes[Len(LastNotes)].message)

IsJsonRequestFailed(e) == e.k = "trigger" /\ e.name = "stveronica.jsonRequestFailed"
\* the handler that ran last is the failure callback of a request whose
\* dataType is json
JsonRequestFailed ==
    \/ last.op = "fail"
    \/ last.op \in ErrorOps /\ ElemResponseTypeAttr[last.who] = Str("json")

\* C18 (as claimed): every failed request whose declared response type is
\* JSON, sent by sendJsonRequest or by a hover or click on an element with
\* response-type 'json', triggers stveronica.jsonRequestFailed; and every
\* envelope that handleJsonResponse handles without an exception triggers
\* stveronica.jsonProcessed exactly once, with the body and the options.
C18_EventsAnnounced ==
    /\ JsonRequestFailed =>
          \E i \in 1..Len(last.log) : IsJsonRequestFailed(last.log[i])
    /\ \A i \in 1..Len(last.log) :
          (last.log[i].k = "route" /\ last.log[i].ret) =>
              /\ Cardinality({j \in 1..Len(last.log) : IsJsonProcessed(last.log[j])}) = 1
              /\ \E j \in 1..i : /\ IsJsonProcessed(last.log[j])
                                 /\ last.log[j].args = <<last.log[i].call.data,
                                                         last.log[i].call.options>>

\* the part of C18 that holds: the failure event of sendJsonRequest and the
\* stveronica.jsonProcessed event
C18_EventsOfSendJsonRequest ==
    /\ last.op = "fail" =>
          \E i \in 1..Len(last.log) : IsJsonRequestFailed(last.log[i])
    /\ \A i \in 1..Len(last.log) :
          (last.log[i].k = "route" /\ last.log[i].ret) =>
              /\ Cardinality({j \in 1..Len(last.log) : IsJsonProcessed(last.log[j])}) = 1
              /\ \E j \in 1..i : /\ IsJsonProcessed(last.log[j])
                                 /\ last.log[j].args = <<last.log[i].call.data,
                                                         last.log[i].call.options>>

\* the success and failure callbacks of all requests
TerminalOps == SuccessOps \cup ErrorOps \cup {"done", "fail"}

\* C19: the loading state is one shared flag with no per-request tracking:
\* the success or failure callback of any request clears the spinner and
\* ajax-loading, whether or not other requests are still in flight.
C19_AnyTerminationClears ==
    [][last'.op \in TerminalOps =>
          /\ Cardinality(requests') = Cardinality(requests) - 1
          /\ ~spinnerShow'
          /\ "ajax-loading" \notin bodyClasses']_vars

\* two requests overlapped, the first has succeeded and the second is
\* still in flight with the indicator inactive
C19_Witness ==
    /\ last.op \in {"hover.success", "click.success", "done"}
    /\ issued = 2
    /\ requests # {}
    /\ ~spinnerShow /\ "ajax-loading" \notin bodyClasses

\* the entries of a list that come before its first null or undefined entry
Before(q) == {i \in 1..Len(q) : \A j \in 1..i : ~Nullish(q[j])}

\* C20: envelope handling is not atomic.  When the handling of a non-null
\* envelope raises part-way, handleJsonResponse returns false after the
\* 'Error processing server response' notification, what was applied
\* before the exception stays applied (the field errors of a form envelope
\* whose form cannot be reset, the notifications of the entries before a
\* null entry), and what comes after it is not acted upon: no success
\* notification, no generic message notification, no navigation, no
\* content swap and no stveronica.jsonProcessed event.
C20_PartialEffectsRemain ==
    [][(/\ last'.op = "handleJsonResponse"
        /\ ~Nullish(last'.data)
        /\ Raises(Call(last'))) =>
           LET log == last'.log
               n == Len(last'.log)
               call == Call(last')
               kept == IF call.responseType = Str("notification")
                          /\ Get(call.data, "notifications").t = "array"
                       THEN Cardinality(Before(Get(call.data, "notifications").v))
                       ELSE 0
           IN  /\ log[n].ret = FALSE
               /\ n = kept + 2
               /\ IsErrorProcessingNote(log[n - 1])
               /\ \A i \in 1..kept : log[i] = NoteOf(Get(call.data, "notifications").v[i])
               /\ dom'.toast.message = "Error processing server response"
               /\ (call.responseType = Str("form")
                   /\ Truthy(Get(call.data, "form_errors"))) =>
                      \A x \in Fields :
                         /\ dom'.fieldInvalid[x] =
                               (/\ x[2] \in Keys(Get(call.data, "form_errors"))
                                /\ x[1] \in MatchInside(Get(call.options, "formSelector")))
                         /\ dom'.fieldErrors[x] # <<>> <=> dom'.fieldInvalid[x]
               /\ dom'.formDirty = dom.formDirty
               /\ dom'.searchContainer = dom.searchContainer
               /\ dom'.searchQuery = dom.searchQuery
               /\ dom'.location = dom.location
               /\ dom'.ajaxContainer = dom.ajaxContainer
               /\ dom'.sr = dom.sr
               /\ dom'.fx = dom.fx]_vars

\* a form envelope with form_errors, form_success and message was routed
\* with the selector of an element that has no reset(): the email field of
\* f2 keeps its error
C20_Witness ==
    /\ last.op = "handleJsonResponse"
    /\ Get(last.options, "formSelector") = Str("#signup")
    /\ Truthy(Get(last.data, "form_errors"))
    /\ Truthy(Get(last.data, "form_success"))
    /\ Truthy(Get(last.data, "message"))
    /\ last.log[Len(last.log)].ret = FALSE
    /\ dom.fieldInvalid[<<"f2", "email">>]
    /\ dom.fieldErrors[<<"f2", "email">>] = <<"Invalid email">>

\* the list <<{message: "A"}, null>> was routed: the notification of A was
\* emitted before the exception
C20_WitnessNotes ==
    /\ last.op = "handleJsonResponse"
    /\ Get(last.data, "notifications") = Arr(<<NoteA, Null>>)
    /\ last.log[1] = NoteOf(NoteA)
    /\ last.log[Len(last.log)].ret = FALSE

\* C21 (as claimed): the success of a request sent on hover or focus only
\* writes the cache entry and the loading and terminal state: it leaves the
\* document as it was (no content swap, no notification, no navigation
\* started or queued) and calls nothing that others can observe, for
\* elements of response type 'default' and 'json' alike.
C21_HoverSuccessOnlyCaches ==
    [][last'.op = "hover.success" =>
          /\ dom' = dom
          /\ last'.log = <<>>
          /\ ajaxCache'[last'.url] = last'.data]_vars

\* the part of C21 that holds: elements of response type 'default'
C21_HoverSuccessOfHtml ==
    [][(last'.op = "hover.success"
        /\ ElemResponseTypeAttr[last'.who] # Str("json")) =>
          /\ dom' = dom
          /\ last'.log = <<>>
          /\ ajaxCache'[last'.url] = last'.data]_vars

\* what displaySearchResults renders for the results of an envelope
RenderingOf(data) ==
    IF Len(Get(data, "search_results").v) = 0 THEN Str("<p>No results found.</p>")
    ELSE Rendered(Get(data, "search_results"))
\* the handler that ran last routed a search envelope to the container
SearchRouted ==
    /\ last.op = "handleJsonResponse"
    /\ Call(last).responseType = Str("search")
    /\ Truthy(Get(last.data, "search_results"))
    /\ MatchesSearchContainer(Get(Call(last).options, "containerSelector"))
    /\ ~Raises(Call(last))

\* C22 (as claimed): when search envelopes are routed one after another to
\* the same container, a deferred write of an earlier envelope never
\* overwrites the content of a later one: once an envelope has been routed
\* and the pending fade callbacks have run, with no other envelope routed
\* since, the container shows the rendering of that envelope.
C22_LatestEnvelopeShown ==
    [][(/\ SearchRouted
        /\ last'.op = "fx" /\ last'.who = "searchContainer"
        /\ dom'.fx["searchContainer"] = <<>>) =>
           dom'.searchContainer = RenderingOf(last.data)]_vars

\* the part of C22 that holds: envelopes with non-empty results, whose
\* writes all go through the fade queue of the container, in order
C22_LatestListShown ==
    [][(/\ SearchRouted
        /\ Len(Get(last.data, "search_results").v) > 0
        /\ last'.op = "fx" /\ last'.who = "searchContainer"
        /\ dom'.fx["searchContainer"] = <<>>) =>
           dom'.searchContainer = RenderingOf(last.data)]_vars

\* the click handler that ran last served its element from the cache
ServedFromCache ==
    /\ last.op = "click" /\ ~last.sent
    /\ last.data # Undefined

\* C23 (as claimed): the value a click handler takes from the cache has the
\* format its element declares, also when two elements share a url and
\* declare different response types: an element of response type 'json' is
\* served a parsed JSON body, never an HTML text, and an element of
\* response type 'default' is served an HTML text, never an envelope.
C23_CachedFormatMatchesElement ==
    ServedFromCache =>
        IF ElemResponseTypeAttr[last.who] = Str("json")
        THEN last.data \notin HtmlBodies
        ELSE last.data \in HtmlBodies

====
